---- MODULE Spec2Model ----
(***************************************************************************)
(* A model of the asset-manager crate (src/src/lib.rs): AssetHandle with   *)
(* its three-state AssetState, and AssetManager with its storage `assets`  *)
(* and its path index `paths`.  Several managers and several handles live  *)
(* side by side; the loader (Asset::load) is an external capability whose  *)
(* outcome is chosen nondeterministically at every invocation.             *)
(***************************************************************************)
EXTENDS Integers, Sequences, FiniteSets, TLC

\* ---------------------------------------------------------------- bounds
\* how many handles are ever constructed (by new or by clone)
MaxHandles == 2
\* how many AssetManager instances exist
NumManagers == 2

Managers == 1..NumManagers
\* the paths handles are built from, the values and the errors T::load returns
PathBufs == {"a.txt", "missing.txt"}
AssetValues == {10, 20}
AssetErrors == {"not found", "malformed"}

VARIABLES
    managers,     \* managers[m] = [assets |-> Vec<T>, paths |-> HashMap<PathBuf, usize>]
    handles,      \* handles[h] = the AssetState of the h-th handle constructed
    panicked,     \* TRUE once an index out of bounds has aborted the program
    origin,       \* history: origin[h] = the path handle h was constructed from
    owner,        \* history: owner[h] = the manager whose load resolved h (0: none yet)
    loaderOks,    \* history: loaderOks[m][p] = invocations of T::load(p) by m that returned Ok
    loaderVals,   \* history: loaderVals[m][p] = the values those invocations returned
    last          \* history: the last call, its result, and the handles and
                  \* managers as they were before it

vars == <<managers, handles, panicked, origin, owner, loaderOks, loaderVals, last>>

\* ------------------------------------------------------------ AssetState
\* enum AssetState<E> { Loaded(usize), Unloaded(PathBuf), Error(PathBuf, E) }
Loaded(idx) == [tag |-> "Loaded", idx |-> idx]
Unloaded(p) == [tag |-> "Unloaded", path |-> p]
Error(p, e) == [tag |-> "Error", path |-> p, err |-> e]

\* Option<T> and Result<T, E>
Some(x) == [tag |-> "Some", val |-> x]
None == [tag |-> "None"]
Ok(x) == [tag |-> "Ok", val |-> x]
Err(e) == [tag |-> "Err", err |-> e]
Unit == 0
\* the outcome of indexing a Vec out of bounds
Panic == [tag |-> "Panic"]

\* faulty variant: the derived equality, which compares the error as well
AssetState_eq_derived(self, other) == self = other

\* impl PartialEq for AssetState
AssetState_eq(self, other) ==
    IF self.tag = "Loaded" /\ other.tag = "Loaded" THEN self.idx = other.idx
    ELSE IF (self.tag = "Unloaded" /\ other.tag = "Unloaded")
            \/ (self.tag = "Error" /\ other.tag = "Error") THEN self.path = other.path
    ELSE FALSE

\* ----------------------------------------------------------- AssetHandle
\* AssetHandle::new
new(p) == Unloaded(p)

\* faulty variant: the path is given for an Unloaded handle only
path_unloaded_only(self) ==
    IF self.tag = "Unloaded" THEN Some(self.path) ELSE None

\* AssetHandle::path
path(self) ==
    IF self.tag \in {"Unloaded", "Error"} THEN Some(self.path) ELSE None

is_unloaded(self) == self.tag = "Unloaded"
is_loaded(self) == self.tag = "Loaded"
is_err(self) == self.tag = "Error"

\* impl PartialEq for AssetHandle
AssetHandle_eq(self, other) == AssetState_eq(self, other)

\* impl Clone for AssetHandle
clone(self) == self

\* ---------------------------------------------------------- AssetManager
\* impl Default for AssetManager: no assets, no paths
default == [assets |-> <<>>, paths |-> <<>>]

\* faulty variant: a lookup that never finds the path
paths_get_never(paths, p) == None

\* HashMap::get on the path index
paths_get(paths, p) ==
    IF p \in DOMAIN paths THEN Some(paths[p]) ELSE None

\* faulty variant: an insert that is lost
paths_insert_lost(paths, p, idx) == paths

\* HashMap::insert on the path index
paths_insert(paths, p, idx) ==
    [q \in (DOMAIN paths) \cup {p} |-> IF q = p THEN idx ELSE paths[q]]

\* faulty variant: the new value is put in front of the stored ones
assets_push_front(assets, v) == <<v>> \o assets

\* Vec::push on the storage
assets_push(assets, v) == Append(assets, v)

\* self.assets[idx], with the slot index counted from 0 as in the source
assets_index(assets, idx) ==
    IF idx < Len(assets) THEN Some(assets[idx + 1]) ELSE Panic

\* faulty variant: a handle that is not Loaded is looked up by its path
get_by_path(self, state) ==
    IF state.tag = "Loaded" THEN assets_index(self.assets, state.idx)
    ELSE IF state.path \in DOMAIN self.paths
         THEN assets_index(self.assets, self.paths[state.path])
         ELSE None

\* AssetManager::get
get(self, state) ==
    IF state.tag = "Loaded" THEN assets_index(self.assets, state.idx)
    ELSE None

\* faulty variant: only a Loaded handle counts as resolved, a failed one is retried
is_resolved_loaded_only(state) == state.tag = "Loaded"

\* AssetManager::load, arm `Loaded(_) | Error(_, _) => Ok(())`
is_resolved(state) == state.tag \in {"Loaded", "Error"}

\* AssetManager::load, arm `Some(&idx)`: the path is in the index
load_hit(self, state, idx) ==
    [mgr |-> self, state |-> Loaded(idx), ret |-> Ok(Unit), called |-> FALSE]

\* faulty variant: the slot index is read after the push
load_ok_index_after_push(self, state, v) ==
    LET assets == Append(self.assets, v)
        idx == Len(assets)
    IN
    [mgr |-> [assets |-> assets,
              paths |-> [q \in (DOMAIN self.paths) \cup {state.path} |->
                            IF q = state.path THEN idx ELSE self.paths[q]]],
     state |-> Loaded(idx), ret |-> Ok(Unit), called |-> TRUE]

\* faulty variant: the path is indexed but the value is not stored
load_ok_not_stored(self, state, v) ==
    LET idx == Len(self.assets) IN
    [mgr |-> [assets |-> self.assets,
              paths |-> [q \in (DOMAIN self.paths) \cup {state.path} |->
                            IF q = state.path THEN idx ELSE self.paths[q]]],
     state |-> Loaded(idx), ret |-> Ok(Unit), called |-> TRUE]

\* AssetManager::load, arm `Ok(loaded_asset)`: the loader returned a value
load_ok(self, state, v) ==
    LET idx == Len(self.assets) IN
    [mgr |-> [assets |-> assets_push(self.assets, v),
              paths |-> paths_insert(self.paths, state.path, idx)],
     state |-> Loaded(idx), ret |-> Ok(Unit), called |-> TRUE]

\* faulty variant: the failure is returned but not recorded on the handle
load_err_not_recorded(self, state, e) ==
    [mgr |-> self, state |-> state, ret |-> Err(e), called |-> TRUE]

\* faulty variant: the failing path is entered in the index all the same
load_err_indexed(self, state, e) ==
    [mgr |-> [assets |-> self.assets,
              paths |-> [q \in (DOMAIN self.paths) \cup {state.path} |->
                            IF q = state.path THEN Len(self.assets) ELSE self.paths[q]]],
     state |-> [tag |-> "Error", path |-> state.path, err |-> e],
     ret |-> Err(e), called |-> TRUE]

\* faulty variant: the failure is recorded on the handle but Ok is returned
load_err_swallowed(self, state, e) ==
    [mgr |-> self, state |-> [tag |-> "Error", path |-> state.path, err |-> e],
     ret |-> Ok(Unit), called |-> TRUE]

\* AssetManager::load, arm `Err(e)`: the loader failed; the error returned
\* is the one read back from the handle
load_err(self, state, e) ==
    LET failed == Error(state.path, e) IN
    [mgr |-> self, state |-> failed, ret |-> Err(failed.err), called |-> TRUE]

\* AssetManager::load; loaded_asset is what T::load returns if it is invoked
load(self, state, loaded_asset) ==
    IF is_resolved(state)
    THEN [mgr |-> self, state |-> state, ret |-> Ok(Unit), called |-> FALSE]
    ELSE LET found == paths_get(self.paths, state.path) IN
         IF found.tag = "Some" THEN load_hit(self, state, found.val)
         ELSE IF loaded_asset.tag = "Ok" THEN load_ok(self, state, loaded_asset.val)
         ELSE load_err(self, state, loaded_asset.err)

\* what Asset::load may return: any value or any error
LoaderOutcomes == {Ok(v) : v \in AssetValues} \cup {Err(e) : e \in AssetErrors}

\* ------------------------------------------------------- the state machine
Init ==
    /\ managers = [m \in Managers |-> default]
    /\ handles = <<>>
    /\ panicked = FALSE
    /\ origin = <<>>
    /\ owner = <<>>
    /\ loaderOks = [m \in Managers |-> [p \in PathBufs |-> 0]]
    /\ loaderVals = [m \in Managers |-> [p \in PathBufs |-> {}]]
    /\ last = [op |-> "none", handles |-> <<>>,
               managers |-> [m \in Managers |-> default]]

\* let h = AssetHandle::new(p)
New(p) ==
    /\ ~panicked
    /\ Len(handles) < MaxHandles
    /\ handles' = Append(handles, new(p))
    /\ origin' = Append(origin, p)
    /\ owner' = Append(owner, 0)
    /\ last' = [op |-> "new", h |-> Len(handles) + 1, arg |-> p,
                handles |-> handles, managers |-> managers]
    /\ UNCHANGED <<managers, panicked, loaderOks, loaderVals>>

\* let h2 = h.clone()
Clone(h) ==
    /\ ~panicked
    /\ Len(handles) < MaxHandles
    /\ handles' = Append(handles, clone(handles[h]))
    /\ origin' = Append(origin, origin[h])
    /\ owner' = Append(owner, owner[h])
    /\ last' = [op |-> "clone", h |-> Len(handles) + 1, arg |-> h,
                handles |-> handles, managers |-> managers]
    /\ UNCHANGED <<managers, panicked, loaderOks, loaderVals>>

\* whether this call reaches `T::load(path, resources)`
invokes_loader(self, state) ==
    ~is_resolved(state) /\ paths_get(self.paths, state.path).tag = "None"

\* faulty variant: the result is written to every handle in the state of h
Load_writes_aliases(m, h) ==
    /\ ~panicked
    /\ \E loaded_asset \in IF invokes_loader(managers[m], handles[h])
                           THEN LoaderOutcomes ELSE {None} :
        LET r == load(managers[m], handles[h], loaded_asset)
            p == origin[h]
        IN
        /\ managers' = [managers EXCEPT ![m] = r.mgr]
        /\ handles' = [k \in DOMAIN handles |->
                          IF handles[k] = handles[h] THEN r.state ELSE handles[k]]
        /\ owner' = IF r.state # handles[h]
                    THEN [owner EXCEPT ![h] = m] ELSE owner
        /\ loaderOks' = IF r.called /\ loaded_asset.tag = "Ok"
                        THEN [loaderOks EXCEPT ![m][p] = @ + 1] ELSE loaderOks
        /\ loaderVals' = IF r.called /\ loaded_asset.tag = "Ok"
                         THEN [loaderVals EXCEPT ![m][p] = @ \cup {loaded_asset.val}]
                         ELSE loaderVals
        /\ last' = [op |-> "load", m |-> m, h |-> h, ret |-> r.ret,
                    called |-> r.called, loaded_asset |-> loaded_asset,
                    handles |-> handles, managers |-> managers]
    /\ UNCHANGED <<panicked, origin>>

\* managers[m].load(&mut handles[h], resources)
Load(m, h) ==
    /\ ~panicked
    /\ \E loaded_asset \in IF invokes_loader(managers[m], handles[h])
                           THEN LoaderOutcomes ELSE {None} :
        LET r == load(managers[m], handles[h], loaded_asset)
            p == origin[h]
        IN
        /\ managers' = [managers EXCEPT ![m] = r.mgr]
        /\ handles' = [handles EXCEPT ![h] = r.state]
        /\ owner' = IF r.state # handles[h]
                    THEN [owner EXCEPT ![h] = m] ELSE owner
        /\ loaderOks' = IF r.called /\ loaded_asset.tag = "Ok"
                        THEN [loaderOks EXCEPT ![m][p] = @ + 1] ELSE loaderOks
        /\ loaderVals' = IF r.called /\ loaded_asset.tag = "Ok"
                         THEN [loaderVals EXCEPT ![m][p] = @ \cup {loaded_asset.val}]
                         ELSE loaderVals
        /\ last' = [op |-> "load", m |-> m, h |-> h, ret |-> r.ret,
                    called |-> r.called, loaded_asset |-> loaded_asset,
                    handles |-> handles, managers |-> managers]
    /\ UNCHANGED <<panicked, origin>>

\* managers[m].get(&handles[h])
Get(m, h) ==
    /\ ~panicked
    /\ LET r == get(managers[m], handles[h]) IN
        /\ panicked' = (r.tag = "Panic")
        /\ last' = [op |-> "get", m |-> m, h |-> h, ret |-> r,
                    handles |-> handles, managers |-> managers]
    /\ UNCHANGED <<managers, handles, origin, owner, loaderOks, loaderVals>>

\* the read-only operations of a handle: handles[h].path(), .is_unloaded(),
\* .is_loaded(), .is_err(), and handles[h] == handles[k] for every handle k
Inspect(h) ==
    /\ ~panicked
    /\ last' = [op |-> "inspect", h |-> h,
                path |-> path(handles[h]),
                is_unloaded |-> is_unloaded(handles[h]),
                is_loaded |-> is_loaded(handles[h]),
                is_err |-> is_err(handles[h]),
                eq |-> [k \in DOMAIN handles |-> AssetHandle_eq(handles[h], handles[k])],
                handles |-> handles, managers |-> managers]
    /\ UNCHANGED <<managers, handles, panicked, origin, owner, loaderOks, loaderVals>>

Next ==
    \/ \E p \in PathBufs : New(p)
    \/ \E h \in DOMAIN handles : Clone(h)
    \/ \E m \in Managers, h \in DOMAIN handles : Load(m, h)
    \/ \E m \in Managers, h \in DOMAIN handles : Get(m, h)
    \/ \E h \in DOMAIN handles : Inspect(h)

Spec == Init /\ [][Next]_vars

TypeOK ==
    /\ Len(handles) <= MaxHandles
    /\ \A h \in DOMAIN handles : handles[h].tag \in {"Loaded", "Unloaded", "Error"}
    /\ panicked \in BOOLEAN

\* ------------------------------------------------------ reading `last`
\* the last call was load on a handle that was Unloaded before the call
LoadOfUnloaded == last.op = "load" /\ last.handles[last.h].tag = "Unloaded"

\* the path of the handle of the last call, as it was before the call
LastPath == last.handles[last.h].path

\* the manager of the last call, as it was before the call
LastManager == last.managers[last.m]

\* the last call invoked the loader and the loader returned Ok
LastLoaderOk == last.op = "load" /\ last.called /\ last.loaded_asset.tag = "Ok"

\* successful loader invocations for path p by manager m before the last call
OksBefore(m, p) ==
    loaderOks[m][p] - (IF LastLoaderOk /\ last.m = m /\ LastPath = p THEN 1 ELSE 0)

\* s is a prefix of t
IsPrefix(s, t) == Len(s) <= Len(t) /\ \A i \in 1..Len(s) : s[i] = t[i]

\* handle h was built from path p and has been made Loaded by a load on manager m
LoadedFrom(h, m, p) ==
    handles[h].tag = "Loaded" /\ origin[h] = p /\ owner[h] = m

\* ------------------------------------------------------------------ C1
\* an earlier handle h1 built from the path of the last call was loaded
\* successfully on the manager of the last call
C1_EarlierSuccess ==
    \E h1 \in DOMAIN handles : h1 # last.h /\ LoadedFrom(h1, last.m, LastPath)

\* C1 (deduplication): when load(m, h2) is called on a fresh (Unloaded) handle
\* h2 built from p and some other handle h1 built from p has already been
\* loaded successfully on m, the call returns Ok without invoking the loader,
\* h2 ends Loaded with the slot index of h1, and get(m, h1) and get(m, h2) are
\* the same stored value; at all times two handles built from the same path
\* and loaded on the same manager have the same slot index.
C1_Deduplication ==
    /\ (LoadOfUnloaded /\ C1_EarlierSuccess) =>
          /\ last.ret = Ok(Unit)
          /\ ~last.called
          /\ handles[last.h].tag = "Loaded"
          /\ \A h1 \in DOMAIN handles : LoadedFrom(h1, last.m, LastPath) =>
                /\ handles[h1].idx = handles[last.h].idx
                /\ get(managers[last.m], handles[h1]).tag = "Some"
                /\ get(managers[last.m], handles[h1]) = get(managers[last.m], handles[last.h])
    /\ \A h1, h2 \in DOMAIN handles :
          (LoadedFrom(h1, owner[h1], origin[h1]) /\ LoadedFrom(h2, owner[h1], origin[h1]))
              => handles[h1].idx = handles[h2].idx

\* a second handle of a path has just been loaded on the manager that loaded
\* the first one, and both handles now hold the same state
C1_Witness ==
    /\ LoadOfUnloaded /\ C1_EarlierSuccess
    /\ handles[last.h].tag = "Loaded"
    /\ \E h1 \in DOMAIN handles : h1 # last.h /\ handles[h1] = handles[last.h]

\* ------------------------------------------------------------------ C2
\* C2 (at most one successful load per path): on every manager the loader has
\* succeeded at most once for each path, and a load call that invokes the
\* loader for p is never preceded by a successful invocation for p on that
\* manager.
C2_LoaderOncePerPath ==
    /\ \A m \in Managers, p \in PathBufs : loaderOks[m][p] <= 1
    /\ (last.op = "load" /\ last.called) => OksBefore(last.m, LastPath) = 0

\* a load of a path whose loader invocation had succeeded before on this
\* manager has just returned
C2_Witness ==
    /\ LoadOfUnloaded
    /\ OksBefore(last.m, LastPath) = 1
    /\ ~last.called

\* ------------------------------------------------------------------ C3
\* C3 (idempotence on resolved handles): load on a handle that is Loaded or
\* Failed returns Ok, does not invoke the loader, and leaves the handle, the
\* storage and the path index of the manager as they were.
C3_ResolvedLoadIsNoOp ==
    (last.op = "load" /\ last.handles[last.h].tag \in {"Loaded", "Error"}) =>
        /\ last.ret = Ok(Unit)
        /\ ~last.called
        /\ handles = last.handles
        /\ managers = last.managers

\* load has just been called on a Failed handle whose path is not in the index
C3_Witness ==
    /\ last.op = "load"
    /\ last.handles[last.h].tag = "Error"
    /\ LastPath \notin DOMAIN LastManager.paths

\* ------------------------------------------------------------------ C4
\* the last call was load on Unloaded(p) with p absent from the index
LoadMiss == LoadOfUnloaded /\ LastPath \notin DOMAIN LastManager.paths

\* C4 (loader failure): when load is called on Unloaded(p) with p absent from
\* the index and the loader fails with e, load returns Err(e), the handle
\* becomes Failed(p, e), and storage and path index are as before the call.
C4_LoaderFailure ==
    (LoadMiss /\ last.loaded_asset.tag = "Err") =>
        /\ last.ret = Err(last.loaded_asset.err)
        /\ handles[last.h] = Error(LastPath, last.loaded_asset.err)
        /\ managers = last.managers

\* a load has just failed on a manager that already stores another asset
C4_Witness ==
    /\ LoadMiss /\ last.loaded_asset.tag = "Err"
    /\ last.ret.tag = "Err"
    /\ Len(managers[last.m].assets) > 0

\* ------------------------------------------------------------------ C5
\* another handle holds a failure of the path of the last call, recorded by
\* the manager of the last call, and the loader has not succeeded for that
\* path on that manager before the last call
C5_FailedBefore ==
    /\ \E h1 \in DOMAIN handles :
          /\ h1 # last.h
          /\ handles[h1].tag = "Error"
          /\ handles[h1].path = LastPath
          /\ owner[h1] = last.m
    /\ OksBefore(last.m, LastPath) = 0

\* C5 (failure is not cached across handles): after a load of p failed on m
\* for one handle, and while p has not been loaded successfully on m, load
\* on a fresh handle of p on m invokes the loader again; if that invocation
\* succeeds the handle becomes Loaded, if it fails the handle becomes Failed.
C5_FailureNotCached ==
    (LoadOfUnloaded /\ C5_FailedBefore) =>
        /\ last.called
        /\ last.loaded_asset.tag = "Ok" =>
              (last.ret = Ok(Unit) /\ handles[last.h].tag = "Loaded")
        /\ last.loaded_asset.tag = "Err" => handles[last.h].tag = "Error"

\* a retry through a fresh handle has just succeeded
C5_Witness ==
    /\ LoadOfUnloaded /\ C5_FailedBefore
    /\ last.called /\ last.loaded_asset.tag = "Ok"
    /\ handles[last.h].tag = "Loaded"

\* ------------------------------------------------------------------ C6
\* C6 (slot stability): the slot index of a handle made Loaded by a load on
\* manager m is below the length of the storage of m, and no call shortens
\* the storage of any manager or changes the value in an existing slot.
C6_SlotStability ==
    /\ \A h \in DOMAIN handles : \A m \in Managers :
          (handles[h].tag = "Loaded" /\ owner[h] = m)
              => handles[h].idx < Len(managers[m].assets)
    /\ \A m \in Managers : IsPrefix(last.managers[m].assets, managers[m].assets)

\* a value has just been stored behind the slot of a handle loaded earlier
C6_Witness ==
    /\ LastLoaderOk
    /\ \E h \in DOMAIN handles :
          /\ h # last.h
          /\ handles[h].tag = "Loaded" /\ owner[h] = last.m
          /\ handles[h].idx < Len(LastManager.assets)
          /\ Len(managers[last.m].assets) = Len(LastManager.assets) + 1

\* ------------------------------------------------------------------ C7
\* C7 (no panic): no call of get, on any manager and with any handle, the
\* handles resolved by another manager included, indexes the storage out of
\* its bounds.
C7_GetNeverPanics ==
    /\ ~panicked
    /\ last.op = "get" => last.ret.tag # "Panic"

\* ------------------------------------------------------------------ C8
\* C8 (get): get returns a stored value if and only if the handle is Loaded,
\* returns None for Unloaded and Failed handles, does not invoke the loader,
\* and leaves the handles, the storage and the path index as they were.
C8_GetIffLoaded ==
    last.op = "get" =>
        /\ is_loaded(last.handles[last.h]) <=>
              /\ last.ret.tag = "Some"
              /\ \E i \in 1..Len(LastManager.assets) : LastManager.assets[i] = last.ret.val
        /\ ~is_loaded(last.handles[last.h]) => last.ret = None
        /\ handles = last.handles
        /\ managers = last.managers

\* ------------------------------------------------------------------ C9
\* the state of a handle before (s) and after (t) a call that may change it
C9_Resolves(s, t) ==
    /\ s.tag = "Unloaded"
    /\ \/ t.tag = "Loaded"
       \/ t.tag = "Error" /\ t.path = s.path

\* C9 (monotonic lifecycle): new makes an Unloaded handle and a clone starts
\* in the state of the handle it copies; no call removes a handle; a call
\* leaves the state of every handle as it was, except that load may take
\* the handle passed to it from Unloaded(p) to Loaded(i) or to Failed(p, e).
\* So a state other than Unloaded is never left: no return to Unloaded, no
\* move between Loaded and Failed, no change of the slot index.
C9_HandleLifecycle ==
    /\ Len(handles) >= Len(last.handles)
    /\ \A h \in DOMAIN last.handles :
          \/ handles[h] = last.handles[h]
          \/ /\ last.op = "load" /\ last.h = h
             /\ C9_Resolves(last.handles[h], handles[h])
    /\ last.op = "new" =>
          (Len(handles) = Len(last.handles) + 1 /\ handles[last.h] = Unloaded(last.arg))
    /\ last.op = "clone" =>
          (Len(handles) = Len(last.handles) + 1 /\ handles[last.h] = last.handles[last.arg])
    /\ last.op \notin {"new", "clone"} => Len(handles) = Len(last.handles)

\* one handle has failed, and load has just been called again on a handle that
\* an earlier load had made Loaded
C9_Witness ==
    /\ last.op = "load"
    /\ last.handles[last.h].tag = "Loaded"
    /\ handles[last.h].tag = "Loaded"
    /\ \E h \in DOMAIN handles : handles[h].tag = "Error"

\* ----------------------------------------------------------------- C10
\* C10 (loader success): when load is called on Unloaded(p) with p absent
\* from the index and the loader returns v, v is appended to the storage at
\* the index that was the length of the storage, the index gains p -> that
\* index and keeps its other entries, the handle becomes Loaded(that index)
\* and load returns Ok.
C10_LoaderSuccess ==
    (LoadMiss /\ last.loaded_asset.tag = "Ok") =>
        LET idx == Len(LastManager.assets)
            now == managers[last.m]
        IN
        /\ now.assets = Append(LastManager.assets, last.loaded_asset.val)
        /\ DOMAIN now.paths = (DOMAIN LastManager.paths) \cup {LastPath}
        /\ now.paths[LastPath] = idx
        /\ \A q \in DOMAIN LastManager.paths : now.paths[q] = LastManager.paths[q]
        /\ handles[last.h] = Loaded(idx)
        /\ last.ret = Ok(Unit)

\* a second value has just been appended to a storage, at slot index 1
C10_Witness ==
    /\ LoadMiss /\ last.loaded_asset.tag = "Ok"
    /\ Len(LastManager.assets) = 1
    /\ handles[last.h] = Loaded(1)

\* ----------------------------------------------------------------- C11
\* no load has changed handle h: h was made by new, or copied from such a
\* handle, and is as it was made (every handle never passed to load is one)
C11_NeverLoaded(h) == owner[h] = 0

\* C11 (no spurious loads): a handle never passed to load is Unloaded with
\* the path it was built from, so is_unloaded is true, is_loaded and is_err
\* are false, and get returns None on every manager, whatever other handles
\* (of the same path too) have been loaded; the calls report just that.
C11_NoSpuriousLoads ==
    /\ \A h \in DOMAIN handles : C11_NeverLoaded(h) =>
          /\ handles[h] = Unloaded(origin[h])
          /\ is_unloaded(handles[h])
          /\ ~is_loaded(handles[h])
          /\ ~is_err(handles[h])
          /\ \A m \in Managers : get(managers[m], handles[h]) = None
    /\ (last.op = "inspect" /\ C11_NeverLoaded(last.h)) =>
          (last.is_unloaded /\ ~last.is_loaded /\ ~last.is_err)
    /\ (last.op = "get" /\ C11_NeverLoaded(last.h)) => last.ret = None

\* get has just been called with a handle never passed to load, on a manager
\* that has loaded another handle of the same path
C11_Witness ==
    /\ last.op = "get"
    /\ C11_NeverLoaded(last.h)
    /\ \E k \in DOMAIN handles : LoadedFrom(k, last.m, origin[last.h])

C13_SameKindEqual(a, b) ==
    IF a.tag = "Loaded" THEN a.idx = b.idx ELSE a.path = b.path

\* C13 (equality): two Loaded handles are equal iff their slot indices are
\* equal; two Unloaded handles, and two Failed handles, are equal iff their
\* paths are equal, whatever the errors.
C13_Equality ==
    /\ \A h, k \in DOMAIN handles : handles[h].tag = handles[k].tag =>
          (AssetHandle_eq(handles[h], handles[k])
              <=> C13_SameKindEqual(handles[h], handles[k]))
    /\ last.op = "inspect" =>
          \A k \in DOMAIN handles : handles[last.h].tag = handles[k].tag =>
              (last.eq[k] <=> C13_SameKindEqual(handles[last.h], handles[k]))

\* two handles that failed on the same path with different errors have just
\* been compared, and are equal
C13_Witness ==
    /\ last.op = "inspect"
    /\ \E k \in DOMAIN handles :
          /\ handles[last.h].tag = "Error" /\ handles[k].tag = "Error"
          /\ handles[last.h].path = handles[k].path
          /\ handles[last.h].err # handles[k].err
          /\ last.eq[k]

\* ----------------------------------------------------------------- C14
\* C14 (only load changes state): new, clone and the read-only operations of
\* a handle leave the storage and the path index of every manager as they
\* were; no call other than load changes the state of a handle that exists;
\* load changes the state of no handle but the one passed to it.
C14_OnlyLoadChangesState ==
    /\ last.op \in {"new", "clone", "inspect"} => managers = last.managers
    /\ last.op # "load" =>
          \A h \in DOMAIN last.handles : handles[h] = last.handles[h]
    /\ last.op = "load" =>
          \A h \in DOMAIN last.handles : h # last.h => handles[h] = last.handles[h]

\* load has just made Loaded one of two Unloaded handles of the same path,
\* and the other one is still Unloaded
C14_Witness ==
    /\ LoadOfUnloaded
    /\ handles[last.h].tag = "Loaded"
    /\ \E k \in DOMAIN handles :
          k # last.h /\ handles[k] = last.handles[last.h]

\* ----------------------------------------------------------------- C15
\* C15 (path only while unloaded): path() is the path of the asset if
\* is_unloaded() is true and None otherwise, for a Failed handle too.
C15_PathOnlyWhileUnloaded ==
    /\ \A h \in DOMAIN handles :
          path(handles[h]) = (IF is_unloaded(handles[h]) THEN Some(origin[h]) ELSE None)
    /\ last.op = "inspect" =>
          last.path = (IF last.is_unloaded THEN Some(origin[last.h]) ELSE None)

\* ----------------------------------------------------------------- C16
\* C16 (load resolves): after load the handle is Loaded or Failed; the
\* loader is invoked exactly when the handle was Unloaded and its path was
\* not in the index; load returns Err exactly when the loader was invoked
\* in this call and failed, and Ok(()) in every other case.
C16_LoadResolves ==
    last.op = "load" =>
        /\ handles[last.h].tag \in {"Loaded", "Error"}
        /\ last.called <=> LoadMiss
        /\ last.ret.tag = "Err" <=> (last.called /\ last.loaded_asset.tag = "Err")
        /\ last.ret.tag # "Err" => last.ret = Ok(Unit)

\* load has just returned Err while another handle had already failed
C16_Witness ==
    /\ last.op = "load"
    /\ last.ret.tag = "Err"
    /\ \E k \in DOMAIN handles : k # last.h /\ handles[k].tag = "Error"

\* ----------------------------------------------------------------- C17
\* the paths for which the loader has succeeded on manager m
C17_LoadedPaths(m) == {p \in PathBufs : loaderOks[m][p] >= 1}

\* C17 (the index is a bijection): on every manager the index is defined
\* exactly on the paths loaded successfully, maps them one to one onto the
\* slot indices 0 .. len(assets) - 1, and keeps every entry it had before
\* the last call.
C17_IndexBijection ==
    \A m \in Managers :
        LET idx == managers[m].paths
            len == Len(managers[m].assets)
        IN
        /\ DOMAIN idx = C17_LoadedPaths(m)
        /\ \A p \in DOMAIN idx : idx[p] \in 0..(len - 1)
        /\ \A p, q \in DOMAIN idx : idx[p] = idx[q] => p = q
        /\ \A i \in 0..(len - 1) : \E p \in DOMAIN idx : idx[p] = i
        /\ \A p \in DOMAIN last.managers[m].paths :
              p \in DOMAIN idx /\ idx[p] = last.managers[m].paths[p]

\* a second path has just been entered in the index of a manager
C17_Witness ==
    /\ LastLoaderOk
    /\ Cardinality(DOMAIN managers[last.m].paths) = 2
    /\ Cardinality(DOMAIN LastManager.paths) = 1

\* ----------------------------------------------------------------- C18
\* C18 (value correctness): for a handle built from p and made Loaded by
\* manager m, the loader has succeeded exactly once for p on m and get on m
\* returns the value of that invocation.
C18_ValueCorrect ==
    /\ \A h \in DOMAIN handles : handles[h].tag = "Loaded" =>
          /\ owner[h] \in Managers
          /\ loaderOks[owner[h]][origin[h]] = 1
          /\ \E v \in AssetValues :
                /\ loaderVals[owner[h]][origin[h]] = {v}
                /\ get(managers[owner[h]], handles[h]) = Some(v)
    /\ (last.op = "get" /\ handles[last.h].tag = "Loaded" /\ owner[last.h] = last.m) =>
          /\ last.ret.tag = "Some"
          /\ loaderVals[last.m][origin[last.h]] = {last.ret.val}

\* get has just returned the value of the first of two different values
\* stored by a manager
C18_Witness ==
    /\ last.op = "get"
    /\ owner[last.h] = last.m
    /\ last.ret.tag = "Some"
    /\ Len(managers[last.m].assets) = 2
    /\ managers[last.m].assets[1] # managers[last.m].assets[2]
    /\ handles[last.h] = Loaded(0)

\* ----------------------------------------------------------------- C19
\* C19 (a recorded failure is permanent): load on a handle that is
\* Failed(p), on a manager whose index holds p by now, returns Ok, does not
\* invoke the loader, leaves the handle Failed and the manager as it was,
\* and get keeps returning None for the handle.
C19_FailureIsPermanent ==
    /\ (last.op = "load" /\ last.handles[last.h].tag = "Error"
           /\ LastPath \in DOMAIN LastManager.paths) =>
          /\ last.ret = Ok(Unit)
          /\ ~last.called
          /\ handles[last.h] = last.handles[last.h]
          /\ managers = last.managers
          /\ \A m \in Managers : get(managers[m], handles[last.h]) = None
    /\ (last.op = "get" /\ last.handles[last.h].tag = "Error") => last.ret = None

\* load has just been called on a handle that failed on this manager, after
\* another handle loaded the same path on it
C19_Witness ==
    /\ last.op = "load"
    /\ last.handles[last.h].tag = "Error"
    /\ owner[last.h] = last.m
    /\ LastPath \in DOMAIN LastManager.paths
    /\ loaderOks[last.m][LastPath] = 1

====
